---- MODULE Spec2Model ----
(***************************************************************************)
(* Model of logrustash's Hook (src/logstash.go): the producer side (Fire), *)
(* the sender goroutine started by init (reconnect, sendMessage,           *)
(* performSend, filterHookOnly), Flush, the setters and Levels.            *)
(*                                                                         *)
(* Every goroutine is a small program counter machine; one action is one   *)
(* atomic step of the Go code (a channel operation, a mutex operation, a   *)
(* Dial, a Write, a map update loop).                                      *)
(***************************************************************************)
EXTENDS Integers, Sequences, FiniteSets, TLC

VARIABLES
    fireChannel,          \* h.fireChannel: the buffered channel, as a sequence of entries
    conn,                 \* h.conn
    sendingLocker,        \* h.sendingLocker: "free", or the goroutine holding it
    alwaysSentFields,     \* h.alwaysSentFields
    hookOnlyPrefix,       \* h.hookOnlyPrefix
    WaitUntilBufferFrees, \* h.WaitUntilBufferFrees
    entryData,            \* entry.Data of every entry
    origData,             \* entry.Data as it was when the entry was created (history)
    pcP,                  \* position of the Fire call made for each entry
    fireRet,              \* what that Fire call returned
    dropped,              \* entries Fire dropped ("dropped a message")
    waited,               \* entries whose Fire call blocked on the full channel (history)
    pcS,                  \* position of the sender goroutine
    retTo,                \* where reconnect returns to
    entry,                \* the entry the sender loop holds
    dataBytes,            \* sendMessage's dataBytes
    sendErr,              \* sendMessage's err
    retried,              \* performSend has seen a failed Write for this entry
    sendRet,              \* what sendMessage returned for each entry
    wire,                 \* the successful Writes, in order (history)
    enqOrder,             \* the entries in the order they entered the channel (history)
    pcF,                  \* position of the Flush call
    now,                  \* time.Now(), in ms since Flush was called
    expireAt,             \* Flush's expireAt, in ms since Flush was called
    flushRet,             \* what Flush returned
    nPolls,               \* polls of len(h.fireChannel) this Flush made (history)
    sawEmpty,             \* some poll of this Flush found the channel empty (history)
    quietAtCall,          \* the channel was empty and the sender idle when Flush was called
    firedSince,           \* a Fire call was running or ran after Flush was called
    enqAtCall,            \* the entries enqueued before Flush was called
    Timeout,              \* h.Timeout, in ms
    writeDeadline,        \* SetWriteDeadline has been called on the connection h.conn holds
    timed,                \* the run follows the values of the delay variables
    sendDelay,            \* performSend's delay, in ns
    dialDelay,            \* reconnect's delay, in ns
    sendSlept,            \* the last sleep of this performSend call, 0 if none (history)
    dialSlept,            \* the last sleep of this reconnect call, 0 if none (history)
    fmtPrefix,            \* the prefix sendMessage gave to the formatter (history)
    pcW,                  \* position of the SetField/SetFields call
    pending,              \* the map writes that call has still to make
    levelsRet             \* what the Levels call returned

vars == <<fireChannel, conn, sendingLocker, alwaysSentFields, hookOnlyPrefix,
          WaitUntilBufferFrees, entryData, origData, pcP, fireRet, dropped, waited,
          pcS, retTo,
          entry, dataBytes, sendErr, retried, sendRet, wire, enqOrder, pcF, now,
          expireAt, flushRet, nPolls, sawEmpty, quietAtCall, firedSince, enqAtCall,
          Timeout, writeDeadline, timed, sendDelay, dialDelay, sendSlept, dialSlept,
          fmtPrefix, pcW, pending, levelsRet>>

prodVars  == <<pcP, fireRet, dropped, waited>>
delayVars == <<timed, sendDelay, dialDelay, sendSlept, dialSlept>>
apiVars   == <<pcW, pending, levelsRet>>
sendVars  == <<pcS, retTo, entry, dataBytes, sendErr, retried, sendRet, wire,
               writeDeadline, fmtPrefix, delayVars>>
flushVars == <<pcF, now, expireAt, flushRet, nPolls, sawEmpty, quietAtCall, enqAtCall>>
confVars  == <<alwaysSentFields, hookOnlyPrefix, WaitUntilBufferFrees, origData, Timeout>>

----------------------------------------------------------------------------
(* Bounds of the model. *)

NumRecords == 3   \* entries that are fired, each by its own Fire call
ChanCap    == 2   \* capacity of fireChannel (65536 in NewHook..., 10 in the tests)
MaxTimeout == 2   \* the largest Flush timeout, in ms
FlushRecords == 2 \* entries that are fired in the runs with Flush calls
MaxSendTimeout == 1 \* the largest h.Timeout, in ms

Records == 1..NumRecords

----------------------------------------------------------------------------
(* Values. *)

NilConn == "nil"
NoEntry == 0                                  \* the sender loop holds no entry
NoBytes == [rec |-> NoEntry, fields |-> {}]   \* dataBytes before it is assigned
Absent  == "absent"        \* the key is not in the map
Bad     == "unencodable"   \* a value json cannot encode

\* Field keys are strings, modelled as sequences of characters.
KeyOverride == <<"o">>
KeyIgnore   == <<"-", ">", "i">>
KeyDash     == <<"-">>
Keys        == {KeyOverride, KeyIgnore, KeyDash}
PrefixArrow == <<"-", ">">>
Prefixes    == {<<>>, PrefixArrow, KeyDash}

Fields(vals) == [Keys -> vals \cup {Absent}]

----------------------------------------------------------------------------
(* Pure helpers. *)

\* strings.HasPrefix
HasPrefix(s, prefix) ==
    /\ Len(s) >= Len(prefix)
    /\ SubSeq(s, 1, Len(prefix)) = prefix

\* strings.TrimPrefix
TrimPrefix(s, prefix) ==
    IF HasPrefix(s, prefix) THEN SubSeq(s, Len(prefix) + 1, Len(s)) ELSE s

\* sendMessage, the loop over h.alwaysSentFields: fields already set are kept.
MergeOverwrite(data, fields) ==
    [k \in Keys |-> IF fields[k] # Absent THEN fields[k] ELSE data[k]]

Merge(data, fields) ==
    [k \in Keys |-> IF data[k] # Absent THEN data[k] ELSE fields[k]]

\* filterHookOnly
filterHookOnlySkip(data, prefix) == data

filterHookOnly(data, prefix) ==
    IF prefix = <<>>
    THEN data
    ELSE [k \in Keys |-> IF HasPrefix(k, prefix) THEN Absent ELSE data[k]]

\* LogstashFormatter.FormatWithPrefix: the error case, and the bytes.
FormatFails(data) == \E k \in Keys : data[k] = Bad

FormatWithPrefix(e, data, prefix) ==
    [rec    |-> e,
     fields |-> { <<IF prefix # <<>> THEN TrimPrefix(k, prefix) ELSE k, data[k]>> :
                  k \in {x \in Keys : data[x] # Absent} }]

\* The backoff delays of performSend and reconnect, in nanoseconds
\* (time.Duration): time.Millisecond * 10 and time.Second.
BaseDelay == 10000000
MaxDelay  == 1000000000

\* The value delay gets when a retry loop is entered.
StartDelay(follow) == IF follow THEN BaseDelay ELSE 0

\* delay = time.Duration(float64(delay) * 6 / 5), then the cap at time.Second.
\* The conversion to time.Duration drops the fraction of a nanosecond; d * 6
\* does not fit TLC's integers, and d + d \div 5 is the same number.
NextDelayNoCap(d) == d + d \div 5

NextDelay(d) ==
    LET grown == d + d \div 5 IN
    IF grown > MaxDelay THEN MaxDelay ELSE grown

\* A connection returned by net.Dial is a new one, never the one h.conn holds.
Dial(old) == IF old = "c1" THEN "c2" ELSE "c1"

----------------------------------------------------------------------------
(* Initial states. *)

\* The fields of TestFire: "override" set by both, "->ignore" by the hook only.
TestFields == [k \in Keys |-> IF k = KeyDash THEN Absent ELSE "no"]

\* The entries of the pipeline model: one like TestFire's, one that cannot be
\* encoded, one without fields.
InitData(e) ==
    CASE e % 3 = 1 -> [k \in Keys |-> IF k = KeyOverride THEN "yes" ELSE Absent]
      [] e % 3 = 2 -> [k \in Keys |-> IF k = KeyDash THEN Bad ELSE Absent]
      [] OTHER     -> [k \in Keys |-> Absent]

InitCommon ==
    /\ fireChannel = <<>>
    /\ sendingLocker = "free"
    /\ pcP = [e \in Records |-> "idle"]
    /\ fireRet = [e \in Records |-> "none"]
    /\ dropped = {}
    /\ waited = {}
    /\ pcS = "init"
    /\ retTo = "recv"
    /\ entry = NoEntry
    /\ dataBytes = NoBytes
    /\ sendErr = FALSE
    /\ retried = FALSE
    /\ sendRet = [e \in Records |-> "none"]
    /\ wire = <<>>
    /\ enqOrder = <<>>
    /\ pcF = "idle"
    /\ now = 0
    /\ expireAt = 0
    /\ flushRet = "none"
    /\ nPolls = 0
    /\ sawEmpty = FALSE
    /\ quietAtCall = FALSE
    /\ firedSince = FALSE
    /\ enqAtCall = {}
    /\ writeDeadline = FALSE
    /\ sendDelay = 0
    /\ dialDelay = 0
    /\ sendSlept = 0
    /\ dialSlept = 0
    /\ fmtPrefix = <<>>
    /\ pcW = "idle"
    /\ pending = [k \in Keys |-> Absent]
    /\ levelsRet = <<>>

Init ==
    /\ InitCommon
    /\ conn \in {NilConn, "c1"}
    /\ WaitUntilBufferFrees \in BOOLEAN
    /\ alwaysSentFields = TestFields
    /\ hookOnlyPrefix = PrefixArrow
    /\ entryData = [e \in Records |-> InitData(e)]
    /\ origData = entryData
    /\ Timeout = 0
    /\ timed = FALSE

----------------------------------------------------------------------------
(* Fire. *)

\* What the select of Fire does, given len(h.fireChannel).
FireSelectDrops(n, wait) ==
    IF n < ChanCap THEN "send" ELSE "drop"

FireSelectOffByOne(n, wait) ==
    IF n <= ChanCap THEN "send" ELSE IF wait THEN "block" ELSE "drop"

FireSelectSendsAnyway(n, wait) ==
    IF n < ChanCap THEN "send" ELSE IF wait THEN "block" ELSE "send"

FireSelect(n, wait) ==
    IF n < ChanCap THEN "send"
    ELSE IF wait THEN "block"
    ELSE "drop"

Fire(e) ==
    /\ pcP[e] = "idle"
    /\ LET what == FireSelect(Len(fireChannel), WaitUntilBufferFrees) IN
         /\ fireChannel' = IF what = "send" THEN Append(fireChannel, e) ELSE fireChannel
         /\ enqOrder' = IF what = "send" THEN Append(enqOrder, e) ELSE enqOrder
         /\ pcP' = [pcP EXCEPT ![e] = IF what = "block" THEN "blocked" ELSE "done"]
         /\ fireRet' = [fireRet EXCEPT ![e] = IF what = "block" THEN "none" ELSE "nil"]
         /\ dropped' = IF what = "drop" THEN dropped \cup {e} ELSE dropped
         /\ waited' = IF what = "block" THEN waited \cup {e} ELSE waited
    /\ firedSince' = (firedSince \/ pcF \notin {"idle", "done"})
    /\ UNCHANGED <<conn, sendingLocker, confVars, entryData, sendVars, flushVars, apiVars>>

\* The blocking send of Fire, once the channel has room.
FireBlockedSend(e) ==
    /\ pcP[e] = "blocked"
    /\ Len(fireChannel) < ChanCap
    /\ fireChannel' = Append(fireChannel, e)
    /\ enqOrder' = Append(enqOrder, e)
    /\ pcP' = [pcP EXCEPT ![e] = "done"]
    /\ fireRet' = [fireRet EXCEPT ![e] = "nil"]
    /\ firedSince' = (firedSince \/ pcF \notin {"idle", "done"})
    /\ UNCHANGED <<conn, sendingLocker, confVars, entryData, dropped, waited, sendVars,
                   flushVars, apiVars>>

----------------------------------------------------------------------------
(* The sender goroutine of init. *)

\* Where the goroutine goes first: h.reconnect() if there is no connection.
FirstStepNoDial(c) == "recv"

FirstStep(c) == IF c = NilConn THEN "dial" ELSE "recv"

SenderStart ==
    /\ pcS = "init"
    /\ pcS' = FirstStep(conn)
    /\ retTo' = "recv"
    /\ dialDelay' = IF FirstStep(conn) = "dial" THEN StartDelay(timed) ELSE dialDelay
    /\ UNCHANGED <<fireChannel, conn, sendingLocker, confVars, entryData, prodVars,
                   entry, dataBytes, sendErr, retried, sendRet, wire, enqOrder,
                   flushVars, firedSince, writeDeadline, fmtPrefix,
                   timed, sendDelay, sendSlept, dialSlept, apiVars>>

\* reconnect: net.Dial succeeded.
DialOk ==
    /\ pcS = "dial"
    /\ conn' = Dial(conn)
    /\ pcS' = retTo
    /\ writeDeadline' = FALSE
    /\ dialDelay' = 0
    /\ dialSlept' = 0
    /\ UNCHANGED <<fireChannel, sendingLocker, confVars, entryData, prodVars, retTo,
                   entry, dataBytes, sendErr, retried, sendRet, wire, enqOrder,
                   flushVars, firedSince, fmtPrefix, timed,
                   sendDelay, sendSlept, apiVars>>

\* reconnect: net.Dial failed.
DialFail ==
    /\ pcS = "dial"
    /\ pcS' = "dialSleep"
    /\ UNCHANGED <<fireChannel, conn, sendingLocker, confVars, entryData, prodVars,
                   retTo, entry, dataBytes, sendErr, retried, sendRet, wire, enqOrder,
                   flushVars, firedSince, writeDeadline, fmtPrefix,
                   delayVars, apiVars>>

\* reconnect: the backoff sleep is over.
DialSleep ==
    /\ pcS = "dialSleep"
    /\ pcS' = "dial"
    /\ dialSlept' = dialDelay
    /\ dialDelay' = NextDelay(dialDelay)
    /\ UNCHANGED <<fireChannel, conn, sendingLocker, confVars, entryData, prodVars,
                   retTo, entry, dataBytes, sendErr, retried, sendRet, wire, enqOrder,
                   flushVars, firedSince, writeDeadline, fmtPrefix,
                   timed, sendDelay, sendSlept, apiVars>>

\* The entry a receive takes from the channel.
ReceiveLast(ch) == ch[Len(ch)]

Receive(ch) == Head(ch)

\* for entry := range h.fireChannel
Recv ==
    /\ pcS = "recv"
    /\ fireChannel # <<>>
    /\ entry' = Receive(fireChannel)
    /\ fireChannel' = Tail(fireChannel)
    /\ pcS' = "merge"
    /\ UNCHANGED <<conn, sendingLocker, confVars, entryData, prodVars, retTo,
                   dataBytes, sendErr, retried, sendRet, wire, enqOrder, flushVars,
                   firedSince, writeDeadline, fmtPrefix,
                   delayVars, apiVars>>

\* sendMessage: add in the alwaysSentFields.
MergeFields ==
    /\ pcS = "merge"
    /\ entryData' = [entryData EXCEPT ![entry] = Merge(@, alwaysSentFields)]
    /\ pcS' = "format"
    /\ UNCHANGED <<fireChannel, conn, sendingLocker, confVars, prodVars, retTo, entry,
                   dataBytes, sendErr, retried, sendRet, wire, enqOrder, flushVars,
                   firedSince, writeDeadline, fmtPrefix,
                   delayVars, apiVars>>

\* Where sendMessage goes after FormatWithPrefix.
AfterFormatAlwaysSend(failed) == "lock"

AfterFormat(failed) == IF failed THEN "filter" ELSE "lock"

\* sendMessage: formatter.FormatWithPrefix(entry, h.hookOnlyPrefix).
Format ==
    /\ pcS = "format"
    /\ LET failed == FormatFails(entryData[entry]) IN
         /\ sendErr' = failed
         /\ dataBytes' = FormatWithPrefix(entry, entryData[entry], hookOnlyPrefix)
         /\ pcS' = AfterFormat(failed)
    /\ fmtPrefix' = hookOnlyPrefix
    /\ UNCHANGED <<fireChannel, conn, sendingLocker, confVars, entryData, prodVars,
                   retTo, entry, retried, sendRet, wire, enqOrder, flushVars,
                   firedSince, writeDeadline, delayVars,
                   apiVars>>

\* Who holds h.sendingLocker once sendMessage has called Lock().
LockHolderNobody == "free"

LockHolder == "sender"

\* sendMessage: h.sendingLocker.Lock(); performSend is entered: the write
\* deadline is set on h.conn if h.Timeout > 0, delay starts at 10 ms.
SenderLock ==
    /\ pcS = "lock"
    /\ sendingLocker = "free"
    /\ sendingLocker' = LockHolder
    /\ pcS' = "write"
    /\ writeDeadline' = IF Timeout > 0 THEN TRUE ELSE writeDeadline
    /\ sendDelay' = StartDelay(timed)
    /\ UNCHANGED <<fireChannel, conn, confVars, entryData, prodVars, retTo, entry,
                   dataBytes, sendErr, retried, sendRet, wire, enqOrder, flushVars,
                   firedSince, fmtPrefix, timed,
                   dialDelay, sendSlept, dialSlept, apiVars>>

\* Where performSend goes after a Write that returned no error.
AfterWriteOkAgain == "write"

AfterWriteOk == "unlock"

\* performSend: h.conn.Write(data) returned no error.
WriteOk ==
    /\ pcS = "write"
    /\ wire' = Append(wire, [conn |-> conn, data |-> dataBytes])
    /\ pcS' = AfterWriteOk
    /\ sendDelay' = 0
    /\ sendSlept' = 0
    /\ UNCHANGED <<fireChannel, conn, sendingLocker, confVars, entryData, prodVars,
                   retTo, entry, dataBytes, sendErr, retried, sendRet, enqOrder,
                   flushVars, firedSince, writeDeadline, fmtPrefix,
                   timed, dialDelay, dialSlept, apiVars>>

\* Where performSend goes after a Write that returned an error.
AfterWriteFailGiveUp == "unlock"

AfterWriteFailRetryNow == "write"

AfterWriteFail == "writeSleep"

\* performSend: h.conn.Write(data) returned an error.
WriteFail ==
    /\ pcS = "write"
    /\ retried' = TRUE
    /\ pcS' = AfterWriteFail
    /\ UNCHANGED <<fireChannel, conn, sendingLocker, confVars, entryData, prodVars,
                   retTo, entry, dataBytes, sendErr, sendRet, wire, enqOrder,
                   flushVars, firedSince, writeDeadline, fmtPrefix,
                   delayVars, apiVars>>

\* performSend: the backoff sleep is over, h.reconnect() is called.
WriteSleep ==
    /\ pcS = "writeSleep"
    /\ pcS' = "dial"
    /\ retTo' = "write"
    /\ sendSlept' = sendDelay
    /\ sendDelay' = NextDelay(sendDelay)
    /\ dialDelay' = StartDelay(timed)
    /\ UNCHANGED <<fireChannel, conn, sendingLocker, confVars, entryData, prodVars,
                   entry, dataBytes, sendErr, retried, sendRet, wire, enqOrder,
                   flushVars, firedSince, writeDeadline, fmtPrefix,
                   timed, dialSlept, apiVars>>

\* sendMessage: the deferred h.sendingLocker.Unlock()
SenderUnlock ==
    /\ pcS = "unlock"
    /\ sendingLocker' = "free"
    /\ pcS' = "filter"
    /\ UNCHANGED <<fireChannel, conn, confVars, entryData, prodVars, retTo, entry,
                   dataBytes, sendErr, retried, sendRet, wire, enqOrder, flushVars,
                   firedSince, writeDeadline, fmtPrefix,
                   delayVars, apiVars>>

\* sendMessage: the deferred h.filterHookOnly(entry), and the return.
Filter ==
    /\ pcS = "filter"
    /\ entryData' = [entryData EXCEPT ![entry] = filterHookOnly(@, hookOnlyPrefix)]
    /\ sendRet' = [sendRet EXCEPT ![entry] = IF sendErr THEN "err" ELSE "nil"]
    /\ entry' = NoEntry
    /\ dataBytes' = NoBytes
    /\ sendErr' = FALSE
    /\ retried' = FALSE
    /\ pcS' = "recv"
    /\ fmtPrefix' = <<>>
    /\ UNCHANGED <<fireChannel, conn, sendingLocker, confVars, prodVars, retTo, wire,
                   enqOrder, flushVars, firedSince, writeDeadline, delayVars,
                   apiVars>>

----------------------------------------------------------------------------
(* Flush. *)

\* The sender loop is not handling an entry.
SenderIdle == pcS \in {"init", "recv"} \/ (pcS \in {"dial", "dialSleep"} /\ retTo = "recv")

\* expireAt := time.Now().Add(timeout)
FlushCall(timeout) ==
    /\ pcF \in {"idle", "done"}
    /\ now' = 0
    /\ expireAt' = timeout
    /\ pcF' = "check"
    /\ flushRet' = "none"
    /\ nPolls' = 0
    /\ sawEmpty' = FALSE
    /\ quietAtCall' = (fireChannel = <<>> /\ SenderIdle)
    /\ firedSince' = (\E e \in Records : pcP[e] = "blocked")
    /\ enqAtCall' = {enqOrder[i] : i \in 1..Len(enqOrder)}
    /\ UNCHANGED <<fireChannel, conn, sendingLocker, confVars, entryData, prodVars,
                   sendVars, enqOrder, apiVars>>

\* for time.Now().Before(expireAt)
FlushCheck ==
    /\ pcF = "check"
    /\ IF now < expireAt
       THEN pcF' = "lock" /\ flushRet' = flushRet
       ELSE pcF' = "done" /\ flushRet' = "DeadlineExceeded"
    /\ UNCHANGED <<fireChannel, conn, sendingLocker, confVars, entryData, prodVars,
                   sendVars, enqOrder, now, expireAt, nPolls, sawEmpty, quietAtCall,
                   firedSince, enqAtCall, apiVars>>

\* h.sendingLocker.Lock()
FlushLock ==
    /\ pcF = "lock"
    /\ sendingLocker = "free"
    /\ sendingLocker' = "flush"
    /\ pcF' = "unlock"
    /\ UNCHANGED <<fireChannel, conn, confVars, entryData, prodVars, sendVars,
                   enqOrder, now, expireAt, flushRet, nPolls, sawEmpty, quietAtCall,
                   firedSince, enqAtCall, apiVars>>

\* h.sendingLocker.Unlock()
FlushUnlock ==
    /\ pcF = "unlock"
    /\ sendingLocker' = "free"
    /\ pcF' = "len"
    /\ UNCHANGED <<fireChannel, conn, confVars, entryData, prodVars, sendVars,
                   enqOrder, now, expireAt, flushRet, nPolls, sawEmpty, quietAtCall,
                   firedSince, enqAtCall, apiVars>>

\* The test of Flush's poll, given len(h.fireChannel).
FlushDoneNever(n) == FALSE

FlushDone(n) == n = 0

\* if len(h.fireChannel) == 0 { return nil }
FlushLen ==
    /\ pcF = "len"
    /\ nPolls' = nPolls + 1
    /\ sawEmpty' = (sawEmpty \/ fireChannel = <<>>)
    /\ IF FlushDone(Len(fireChannel))
       THEN pcF' = "done" /\ flushRet' = "nil"
       ELSE pcF' = "sleep" /\ flushRet' = flushRet
    /\ UNCHANGED <<fireChannel, conn, sendingLocker, confVars, entryData, prodVars,
                   sendVars, enqOrder, now, expireAt, quietAtCall, firedSince,
                   enqAtCall, apiVars>>

\* time.Sleep(time.Millisecond): at least one millisecond passes.
FlushSleep ==
    /\ pcF = "sleep"
    /\ now' = IF now < expireAt THEN now + 1 ELSE now
    /\ pcF' = "check"
    /\ UNCHANGED <<fireChannel, conn, sendingLocker, confVars, entryData, prodVars,
                   sendVars, enqOrder, expireAt, flushRet, nPolls, sawEmpty,
                   quietAtCall, firedSince, enqAtCall, apiVars>>

\* Time passes while Flush runs.  Past expireAt the clock is not followed any
\* further: time.Now().Before(expireAt) is false from then on.
Tick ==
    /\ pcF \notin {"idle", "done"}
    /\ now < expireAt
    /\ now' = now + 1
    /\ UNCHANGED <<fireChannel, conn, sendingLocker, confVars, entryData, prodVars,
                   sendVars, enqOrder, pcF, expireAt, flushRet, nPolls, sawEmpty,
                   quietAtCall, firedSince, enqAtCall, apiVars>>

----------------------------------------------------------------------------
(* The specifications. *)

\* One step of the sender goroutine.
Sender ==
    \/ SenderStart
    \/ DialOk
    \/ DialFail
    \/ DialSleep
    \/ Recv
    \/ MergeFields
    \/ Format
    \/ SenderLock
    \/ WriteOk
    \/ WriteFail
    \/ WriteSleep
    \/ SenderUnlock
    \/ Filter

\* The pipeline: concurrent Fire calls and the sender goroutine.
Next ==
    \/ \E e \in Records : Fire(e)
    \/ \E e \in Records : FireBlockedSend(e)
    \/ SenderStart
    \/ DialOk
    \/ DialFail
    \/ DialSleep
    \/ Recv
    \/ MergeFields
    \/ Format
    \/ SenderLock
    \/ WriteOk
    \/ WriteFail
    \/ WriteSleep
    \/ SenderUnlock
    \/ Filter

Spec == Init /\ [][Next]_vars

\* The pipeline with Flush calls: Fire calls that find room in the channel, the
\* sender goroutine and a goroutine that calls Flush.
InitFlush ==
    /\ InitCommon
    /\ conn \in {NilConn, "c1"}
    /\ WaitUntilBufferFrees = FALSE
    /\ alwaysSentFields = TestFields
    /\ hookOnlyPrefix = PrefixArrow
    /\ entryData = [e \in Records |-> InitData(e)]
    /\ origData = entryData
    /\ Timeout = 0
    /\ timed = FALSE

NextFlush ==
    \/ \E e \in 1..FlushRecords : Fire(e)
    \/ SenderStart
    \/ DialOk
    \/ DialFail
    \/ DialSleep
    \/ Recv
    \/ MergeFields
    \/ Format
    \/ SenderLock
    \/ WriteOk
    \/ WriteFail
    \/ WriteSleep
    \/ SenderUnlock
    \/ Filter
    \/ \E t \in 0..MaxTimeout : FlushCall(t)
    \/ FlushCheck
    \/ FlushLock
    \/ FlushUnlock
    \/ FlushLen
    \/ FlushSleep
    \/ Tick

FlushSpec == InitFlush /\ [][NextFlush]_vars

\* The pipeline under fair scheduling, with Dial and Write succeeding in the end:
\* the sender goroutine keeps running, a Dial that is retried forever succeeds
\* at some attempt, so does a Write, and a Fire call blocked on the channel
\* goes on when the channel has room.
FairSpec ==
    /\ Spec
    /\ WF_vars(Sender)
    /\ SF_vars(DialOk)
    /\ SF_vars(WriteOk)
    /\ WF_vars(\E e \in Records : FireBlockedSend(e))

\* sendMessage on one entry, for every entry.Data, every h.alwaysSentFields and
\* every h.hookOnlyPrefix over the keys of the model.
InitSend ==
    /\ InitCommon
    /\ conn = "c1"
    /\ WaitUntilBufferFrees = FALSE
    /\ alwaysSentFields \in Fields({"no", Bad})
    /\ hookOnlyPrefix \in Prefixes
    /\ \E d \in Fields({"yes", Bad}) :
         entryData = [e \in Records |-> IF e = 1 THEN d ELSE InitData(e)]
    /\ origData = entryData
    /\ Timeout = 0
    /\ timed = FALSE

NextSend ==
    \/ Fire(1)
    \/ SenderStart
    \/ DialOk
    \/ DialFail
    \/ DialSleep
    \/ Recv
    \/ MergeFields
    \/ Format
    \/ SenderLock
    \/ WriteOk
    \/ WriteFail
    \/ WriteSleep
    \/ SenderUnlock
    \/ Filter

SendSpec == InitSend /\ [][NextSend]_vars

\* The pipeline with h.Timeout set by the caller before the first Fire.
InitTimeout ==
    /\ InitCommon
    /\ conn \in {NilConn, "c1"}
    /\ WaitUntilBufferFrees \in BOOLEAN
    /\ alwaysSentFields = TestFields
    /\ hookOnlyPrefix = PrefixArrow
    /\ entryData = [e \in Records |-> InitData(e)]
    /\ origData = entryData
    /\ Timeout \in 0..MaxSendTimeout
    /\ timed = FALSE

TimeoutSpec == InitTimeout /\ [][Next]_vars

\* One entry, with the values of the delay variables followed.
InitBackoff ==
    /\ InitCommon
    /\ conn \in {NilConn, "c1"}
    /\ WaitUntilBufferFrees = FALSE
    /\ alwaysSentFields = TestFields
    /\ hookOnlyPrefix = PrefixArrow
    /\ entryData = [e \in Records |-> InitData(e)]
    /\ origData = entryData
    /\ Timeout = 0
    /\ timed = TRUE

BackoffSpec == InitBackoff /\ [][NextSend]_vars

----------------------------------------------------------------------------
(* The setters and Levels, called by a goroutine of the application while   *)
(* the sender goroutine runs. None of them takes a lock.                    *)

SetValues == {"set"}

\* SetPrefix: h.hookOnlyPrefix = prefix
SetPrefix(prefix) ==
    /\ hookOnlyPrefix' = prefix
    /\ UNCHANGED <<fireChannel, conn, sendingLocker, alwaysSentFields,
                   WaitUntilBufferFrees, origData, Timeout, entryData, prodVars,
                   sendVars, enqOrder, flushVars, firedSince, apiVars>>

\* SetField is called: the one map write it makes is still to come.
SetField(key, value) ==
    /\ pcW = "idle"
    /\ pcW' = "writing"
    /\ pending' = [k \in Keys |-> IF k = key THEN value ELSE Absent]
    /\ UNCHANGED <<fireChannel, conn, sendingLocker, confVars, entryData, prodVars,
                   sendVars, enqOrder, flushVars, firedSince, levelsRet>>

\* SetFields is called: the loop over fields is entered.
SetFields(fields) ==
    /\ pcW = "idle"
    /\ pcW' = "writing"
    /\ pending' = fields
    /\ UNCHANGED <<fireChannel, conn, sendingLocker, confVars, entryData, prodVars,
                   sendVars, enqOrder, flushVars, firedSince, levelsRet>>

\* h.alwaysSentFields[key] = value, for one of the keys still to be written
\* (a range over a map visits the keys in any order); the call returns after
\* the last one.
MapWrite(key) ==
    /\ pcW = "writing"
    /\ pending[key] # Absent
    /\ alwaysSentFields' = [alwaysSentFields EXCEPT ![key] = pending[key]]
    /\ pending' = [pending EXCEPT ![key] = Absent]
    /\ pcW' = IF \A k \in Keys : pending'[k] = Absent THEN "idle" ELSE "writing"
    /\ UNCHANGED <<fireChannel, conn, sendingLocker, hookOnlyPrefix,
                   WaitUntilBufferFrees, origData, Timeout, entryData, prodVars,
                   sendVars, enqOrder, flushVars, firedSince, levelsRet>>

\* The map is written while sendMessage ranges over it: besides reading some
\* mix of old and new values (MergeFields), the Go runtime may stop the
\* program with "concurrent map iteration and map write".
MapFault ==
    /\ pcS = "merge"
    /\ pcW = "writing"
    /\ pcS' = "fatal"
    /\ UNCHANGED <<fireChannel, conn, sendingLocker, confVars, entryData, prodVars,
                   retTo, entry, dataBytes, sendErr, retried, sendRet, wire, enqOrder,
                   flushVars, firedSince, writeDeadline, fmtPrefix, delayVars,
                   apiVars>>

\* Levels
LevelsNoTrace == <<"panic", "fatal", "error", "warn", "info", "debug">>

Levels == <<"panic", "fatal", "error", "warn", "info", "debug", "trace">>

\* A call of Levels returns.
CallLevels ==
    /\ levelsRet = <<>>
    /\ levelsRet' = Levels
    /\ UNCHANGED <<fireChannel, conn, sendingLocker, confVars, entryData, prodVars,
                   sendVars, enqOrder, flushVars, firedSince, pcW, pending>>

\* The caller drops the list; Levels can be called again.
DropLevels ==
    /\ levelsRet # <<>>
    /\ levelsRet' = <<>>
    /\ UNCHANGED <<fireChannel, conn, sendingLocker, confVars, entryData, prodVars,
                   sendVars, enqOrder, flushVars, firedSince, pcW, pending>>

InitApi ==
    /\ InitCommon
    /\ conn \in {NilConn, "c1"}
    /\ WaitUntilBufferFrees \in BOOLEAN
    /\ alwaysSentFields = TestFields
    /\ hookOnlyPrefix \in Prefixes
    /\ entryData = [e \in Records |-> InitData(e)]
    /\ origData = entryData
    /\ Timeout = 0
    /\ timed = FALSE

\* One entry and the sender, with the setters and Levels called at any moment;
\* nothing runs once the runtime has stopped the program.
NextApi ==
    /\ pcS # "fatal"
    /\ \/ NextSend
       \/ \E prefix \in Prefixes : SetPrefix(prefix)
       \/ \E key \in Keys, value \in SetValues : SetField(key, value)
       \/ \E fields \in Fields(SetValues) : SetFields(fields)
       \/ \E key \in Keys : MapWrite(key)
       \/ MapFault
       \/ CallLevels
       \/ DropLevels

ApiSpec == InitApi /\ [][NextApi]_vars

----------------------------------------------------------------------------
(* What the claims speak about. *)

\* How often entry e occurs in a sequence of entries.
Count(e, seq) == Cardinality({i \in 1..Len(seq) : seq[i] = e})

\* The entries of the successful Writes, in the order of the Writes.
WireRecs == [i \in 1..Len(wire) |-> wire[i].data.rec]

\* Where entry e stands in the order of enqueueing.
EnqPos(e) == CHOOSE i \in 1..Len(enqOrder) : enqOrder[i] = e

\* entry.Data of e with the static fields added, as the formatter gets it.
MergedData(e) ==
    [k \in Keys |-> IF origData[e][k] # Absent THEN origData[e][k]
                    ELSE alwaysSentFields[k]]

\* Entry e formats without error.
Formats(e) == \A k \in Keys : MergedData(e)[k] # Bad

\* The sender holds an entry it has formatted and not yet written.
Unsent ==
    \/ pcS \in {"lock", "write", "writeSleep"}
    \/ pcS \in {"dial", "dialSleep"} /\ retTo = "write"

\* Key k starts with prefix p.
StartsWith(k, p) == \E n \in 0..Len(k) : p = [j \in 1..n |-> k[j]]

----------------------------------------------------------------------------
(* C1 *)

\* C1: the entries of the successful Writes were all enqueued, they are written
\* in the order in which Fire put them into the channel (an entry enqueued
\* earlier is never written after one enqueued later), and every successful
\* Write carries the whole serialized form of exactly one entry.
C1_WritesInEnqueueOrder ==
    /\ \A i \in 1..Len(wire) : Count(WireRecs[i], enqOrder) >= 1
    /\ \A i, j \in 1..Len(wire) :
         i < j => EnqPos(WireRecs[i]) < EnqPos(WireRecs[j])
    /\ \A i \in 1..Len(wire) :
         wire[i].data = FormatWithPrefix(WireRecs[i], MergedData(WireRecs[i]),
                                         hookOnlyPrefix)

\* Two entries written in the order of their enqueueing, which is not the order
\* of their creation.
C1_Witness ==
    /\ Len(wire) >= 2
    /\ WireRecs[1] = 3
    /\ WireRecs[2] = 1
    /\ enqOrder[1] = 3

----------------------------------------------------------------------------
(* C2 *)

\* C2: when Flush has returned nil and no Fire call ran during it, every entry
\* that was put into the channel before Flush was called, and that formats
\* without error, has been written successfully to the connection.
C2_FlushNilMeansWritten ==
    (pcF = "done" /\ flushRet = "nil" /\ ~firedSince)
    => \A e \in enqAtCall : Formats(e) => Count(e, WireRecs) = 1

----------------------------------------------------------------------------
(* C3 *)

\* C3: with WaitUntilBufferFrees = false a Fire call that finds the channel full
\* returns nil in that very step (it never blocks), leaves the channel as it
\* was, and its entry is never in the channel nor written to the connection
\* afterwards.
C3_DropOnFull ==
    /\ [](\A e \in dropped :
            /\ pcP[e] = "done"
            /\ fireRet[e] = "nil"
            /\ Count(e, fireChannel) = 0
            /\ Count(e, enqOrder) = 0
            /\ Count(e, WireRecs) = 0)
    /\ [][\A e \in Records :
            (/\ ~WaitUntilBufferFrees
             /\ Len(fireChannel) = ChanCap
             /\ pcP[e] = "idle"
             /\ pcP'[e] # "idle")
            => (/\ pcP'[e] = "done"
                /\ fireRet'[e] = "nil"
                /\ e \in dropped'
                /\ fireChannel' = fireChannel)]_vars

\* An entry was dropped, and the sender has since drained the channel and
\* written the entries that were in it.
C3_Witness ==
    /\ ~WaitUntilBufferFrees
    /\ dropped # {}
    /\ fireChannel = <<>>
    /\ pcS = "recv"
    /\ Len(wire) >= 1
    /\ \A e \in Records : pcP[e] = "done"

----------------------------------------------------------------------------
(* C4 *)

\* C4: with WaitUntilBufferFrees = true no entry is dropped; a Fire call that
\* found the channel full has not returned and its entry is not in the channel
\* as long as it is blocked; it returns only in a step that finds room in the
\* channel and puts the entry at its end; a Fire call that returned has
\* returned nil with its entry enqueued exactly once; and under fair scheduling
\* with Dial and Write succeeding in the end every blocked Fire call returns.
C4_BlockOnFull ==
    /\ [](WaitUntilBufferFrees =>
            /\ dropped = {}
            /\ \A e \in Records :
                 /\ pcP[e] = "blocked" => fireRet[e] = "none" /\ Count(e, enqOrder) = 0
                 /\ pcP[e] = "done" => fireRet[e] = "nil" /\ Count(e, enqOrder) = 1)
    /\ [][\A e \in Records :
            (pcP[e] = "blocked" /\ pcP'[e] # "blocked")
            => (/\ Len(fireChannel) < ChanCap
                /\ fireChannel' = Append(fireChannel, e)
                /\ pcP'[e] = "done")]_vars
    /\ \A e \in Records : (pcP[e] = "blocked") ~> (pcP[e] = "done")

\* A Fire call that blocked on the full channel has returned nil, and its entry
\* has been written.
C4_Witness ==
    \E e \in waited :
        /\ WaitUntilBufferFrees
        /\ pcP[e] = "done"
        /\ fireRet[e] = "nil"
        /\ Count(e, WireRecs) = 1

----------------------------------------------------------------------------
(* C5 *)

\* C5: no entry is written successfully more than once; while performSend is
\* still trying (before the first Write, and between a failed Write and the
\* next one) the entry has not been written; once performSend is through, and
\* for ever after sendMessage returned nil, it has been written exactly once,
\* with the bytes sendMessage formatted before the first attempt.
C5_ExactlyOnce ==
    /\ \A e \in Records : Count(e, WireRecs) <= 1
    /\ \A e \in Records : sendRet[e] = "nil" => Count(e, WireRecs) = 1
    /\ Unsent => Count(entry, WireRecs) = 0
    /\ pcS = "unlock" => /\ Count(entry, WireRecs) = 1
                         /\ wire[Len(wire)].data = dataBytes

\* performSend is through with an entry whose Write failed at least once.
C5_Witness ==
    /\ pcS = "unlock"
    /\ retried
    /\ Count(entry, WireRecs) = 1

----------------------------------------------------------------------------
(* C6 *)

\* C6: under fair scheduling, with Dial and Write succeeding in the end, every
\* entry that Fire put into the channel and that formats without error is
\* eventually written successfully to the connection.
C6_EventuallyWritten ==
    \A e \in Records :
        (Count(e, enqOrder) = 1 /\ Formats(e)) ~> (Count(e, WireRecs) = 1)

\* Every Fire call has returned, the channel is drained, and every enqueued
\* entry that formats is on the wire although a Dial and a Write failed on the
\* way: the hook started without a connection and is on its second one.
C6_Witness ==
    /\ \A e \in Records : pcP[e] = "done"
    /\ fireChannel = <<>>
    /\ pcS = "recv"
    /\ conn = "c2"
    /\ Len(enqOrder) >= ChanCap
    /\ \A e \in Records :
         (Count(e, enqOrder) = 1 /\ Formats(e)) => Count(e, WireRecs) = 1

----------------------------------------------------------------------------
(* C7 *)

\* C7: a Flush call whose timeout has elapsed is not waiting for the sender
\* loop: it is never blocked in sendingLocker.Lock() past its deadline while
\* the sender holds the lock inside performSend's retry loop.
C7_FlushBoundedByTimeout ==
    ~(/\ pcF = "lock"
      /\ now >= expireAt
      /\ sendingLocker = "sender"
      /\ retried
      /\ Unsent)

----------------------------------------------------------------------------
(* C8 *)

\* C8 as claimed: Flush returns DeadlineExceeded only if no poll found the
\* channel empty, and a Flush called with the channel empty and the sender
\* idle, with no Fire call during it, returns nil whatever the timeout.
C8_QuietFlushReturnsNil ==
    /\ flushRet = "DeadlineExceeded" => ~sawEmpty
    /\ (pcF = "done" /\ quietAtCall /\ ~firedSince) => flushRet = "nil"

\* C8, amended: Flush returns DeadlineExceeded only if no poll found the
\* channel empty; a Flush called with the channel empty and the sender idle,
\* with no Fire call during it, returns nil exactly when it polls at all, that
\* is when its first test time.Now().Before(expireAt) still succeeds, which
\* needs a timeout greater than zero, and it then returns at its first poll;
\* otherwise it returns DeadlineExceeded without having polled.
C8_QuietFlushReturnsNilIfPolled ==
    /\ flushRet = "DeadlineExceeded" => ~sawEmpty
    /\ (pcF = "done" /\ quietAtCall /\ ~firedSince) =>
         /\ flushRet \in {"nil", "DeadlineExceeded"}
         /\ flushRet = "nil" <=> nPolls >= 1
         /\ flushRet = "nil" => nPolls = 1 /\ expireAt > 0
         /\ flushRet = "DeadlineExceeded" => nPolls = 0 /\ now >= expireAt

\* A Flush called on the idle hook with a timeout greater than zero has
\* returned nil at its first poll, the sender having sent entries before.
C8_Witness ==
    /\ pcF = "done"
    /\ quietAtCall
    /\ ~firedSince
    /\ flushRet = "nil"
    /\ nPolls = 1
    /\ Len(wire) >= 1

----------------------------------------------------------------------------
(* C9 *)

\* The sender has merged the static fields into its entry and not yet filtered it.
Merged == pcS \in {"format", "lock", "write", "writeSleep", "unlock", "filter"}
          \/ (pcS \in {"dial", "dialSleep"} /\ retTo = "write")

\* C9: once sendMessage has merged the static fields into an entry, every key
\* the entry had keeps the entry's own value, every static key it lacked holds
\* the static value, and a key that neither has is not in the entry.
C9_MergeKeepsOwnFields ==
    Merged =>
        \A k \in Keys :
            /\ origData[entry][k] # Absent => entryData[entry][k] = origData[entry][k]
            /\ origData[entry][k] = Absent => entryData[entry][k] = alwaysSentFields[k]

\* The merge has run on an entry that shares a key with the static fields, with
\* a different value, lacks another static key and has a key of its own.
C9_Witness ==
    /\ pcS = "format"
    /\ \E k \in Keys : /\ origData[entry][k] # Absent
                       /\ alwaysSentFields[k] # Absent
                       /\ alwaysSentFields[k] # origData[entry][k]
    /\ \E k \in Keys : origData[entry][k] = Absent /\ alwaysSentFields[k] # Absent
    /\ \E k \in Keys : origData[entry][k] # Absent /\ alwaysSentFields[k] = Absent

----------------------------------------------------------------------------
(* C10 *)

\* C10: with a non-empty hook-only prefix, once sendMessage has returned for an
\* entry, with nil or with the formatter's error, the entry holds no key that
\* starts with the prefix, and every other key holds what the merge left there.
C10_HookOnlyFieldsRemoved ==
    \A e \in Records :
        (hookOnlyPrefix # <<>> /\ sendRet[e] # "none") =>
            \A k \in Keys :
                /\ StartsWith(k, hookOnlyPrefix) => entryData[e][k] = Absent
                /\ ~StartsWith(k, hookOnlyPrefix) => entryData[e][k] = MergedData(e)[k]

\* sendMessage has returned the formatter's error for an entry that held a
\* hook-only field of its own, got another one from the static fields, and
\* keeps a field without the prefix.
C10_Witness ==
    /\ hookOnlyPrefix = PrefixArrow
    /\ sendRet[1] = "err"
    /\ origData[1][KeyIgnore] # Absent
    /\ origData[1][KeyDash] = Bad
    /\ entryData[1][KeyIgnore] = Absent
    /\ entryData[1][KeyDash] = Bad
    /\ entryData[1][KeyOverride] = "no"

----------------------------------------------------------------------------
(* C12 *)

\* C12: the channel never holds more entries than its capacity (and never
\* fewer than none), under both policies of Fire and whatever the sender does.
C12_ChannelBounded ==
    /\ Len(fireChannel) >= 0
    /\ Len(fireChannel) <= ChanCap
    /\ Cardinality({e \in Records : Count(e, fireChannel) >= 1}) = Len(fireChannel)

\* The sender is stalled on a connection that cannot be dialed, the channel is
\* full and a further Fire call has found it full: its entry was dropped or its
\* caller is blocked in the send.
C12_Witness ==
    /\ Len(fireChannel) = ChanCap
    /\ pcS = "dialSleep"
    /\ \E e \in Records : Count(e, fireChannel) = 0 /\ (e \in dropped \/ pcP[e] = "blocked")

----------------------------------------------------------------------------
(* C14 *)

\* C14: an entry whose formatting fails is never written to the connection;
\* the lock is not taken for it (from the failed format to the return of
\* sendMessage the sender does not hold the lock, and it never is where
\* performSend runs with such an entry); sendMessage handles it once and
\* returns the error; and the step after the failed format is the deferred
\* filter, from which the sender goes back to receiving from the channel.
C14_FormatErrorSkipsEntry ==
    /\ [](\A e \in Records : ~Formats(e) => Count(e, WireRecs) = 0)
    /\ [](\A e \in Records : sendRet[e] = "err" <=> (~Formats(e) /\ sendRet[e] # "none"))
    /\ []((Unsent \/ pcS = "unlock") => Formats(entry))
    /\ []((pcS = "filter" /\ sendErr) => (sendingLocker # "sender" /\ ~retried))
    /\ [][(pcS = "format" /\ pcS' # "format" /\ ~Formats(entry)) =>
            (pcS' = "filter" /\ sendErr' /\ wire' = wire /\ sendingLocker' = sendingLocker)]_vars
    /\ [][(pcS = "filter" /\ pcS' # "filter") =>
            (pcS' = "recv" /\ wire' = wire /\ fireChannel' = fireChannel)]_vars

\* sendMessage returned the formatter's error for one entry, and the entry
\* enqueued after it has been written.
C14_Witness ==
    \E e, f \in Records :
        /\ sendRet[e] = "err"
        /\ Count(e, enqOrder) = 1
        /\ Count(f, enqOrder) = 1
        /\ EnqPos(e) < EnqPos(f)
        /\ Count(f, WireRecs) = 1
        /\ Count(e, WireRecs) = 0

----------------------------------------------------------------------------
(* C15 *)

\* C15: as long as the hook has no connection the sender has received no entry
\* and attempted no Write: it is before or inside the first reconnect, holds no
\* entry, and nothing has been written; and whenever the sender is at a Write
\* the connection is there.
C15_NoWriteWithoutConn ==
    /\ conn = NilConn =>
         /\ pcS \in {"init", "dial", "dialSleep"}
         /\ retTo = "recv"
         /\ entry = NoEntry
         /\ wire = <<>>
         /\ Len(fireChannel) = Len(enqOrder)
    /\ pcS = "write" => conn # NilConn
    /\ \A i \in 1..Len(wire) : wire[i].conn # NilConn

\* The hook has no connection, a Dial has failed, and the channel is full.
C15_Witness ==
    /\ conn = NilConn
    /\ pcS = "dialSleep"
    /\ Len(fireChannel) = ChanCap
    /\ \A e \in Records : pcP[e] # "idle"

----------------------------------------------------------------------------
(* C17 *)

\* C17 as claimed: only a step of the sender in reconnect assigns h.conn, every
\* such step and every Write happens with the sender holding sendingLocker, and
\* Flush does not hold sendingLocker while the sender is at a Write.
C17_ConnOnlyUnderLock ==
    /\ [][conn' # conn => (pcS = "dial" /\ sendingLocker = "sender")]_vars
    /\ [](pcS = "write" => sendingLocker = "sender")
    /\ [](sendingLocker = "flush" => pcS # "write")

\* C17, amended: only a step of the sender in reconnect assigns h.conn; the
\* assignments of the reconnect that performSend calls, and every Write, happen
\* with the sender holding sendingLocker, while the first assignment, made by
\* the reconnect that init calls when the hook has no connection, happens
\* without the lock and before any entry is received; Flush does not hold
\* sendingLocker while the sender is at a Write or anywhere in performSend.
C17_ConnUnderLockAfterFirstDial ==
    /\ [][conn' # conn =>
            /\ pcS = "dial"
            /\ \/ sendingLocker = "sender" /\ retTo = "write"
               \/ /\ conn = NilConn
                  /\ retTo = "recv"
                  /\ sendingLocker # "sender"
                  /\ entry = NoEntry]_vars
    /\ [](pcS = "write" => sendingLocker = "sender")
    /\ []((Unsent /\ pcS # "lock") => sendingLocker = "sender")
    /\ [](sendingLocker = "flush" => pcS # "write")

\* The sender is at a Write on a connection it dialed itself after a failed
\* Write, and a Flush call is waiting for the lock.
C17_Witness ==
    /\ pcS = "write"
    /\ retried
    /\ sendingLocker = "sender"
    /\ pcF = "lock"

----------------------------------------------------------------------------
(* C16 *)

\* C16: a Write that failed is followed by the backoff sleep of performSend and
\* then by reconnect; the next Write for the entry is reached only from a Dial
\* that succeeded, which has put a new connection in the place of the one the
\* Write failed on; from the Lock to the successful Write the sender keeps the
\* same entry and takes nothing out of the channel.
C16_RetryAfterSleepAndDial ==
    /\ [][(pcS = "write" /\ (retried' # retried \/ pcS' \notin {"write", "unlock"})) =>
            (pcS' = "writeSleep" /\ conn' = conn /\ wire' = wire)]_vars
    /\ [][(pcS = "writeSleep" /\ pcS' # "writeSleep") =>
            (pcS' = "dial" /\ retTo' = "write" /\ conn' = conn)]_vars
    /\ [][(pcS \in {"dial", "dialSleep"} /\ retTo = "write") =>
            (pcS' \in {"dial", "dialSleep"} /\ conn' = conn /\ retTo' = retTo)
              \/ (pcS = "dial" /\ pcS' = "write" /\ conn' # conn /\ conn' # NilConn)]_vars
    /\ [][(pcS # "write" /\ pcS' = "write") =>
            (pcS = "lock" \/ (pcS = "dial" /\ retTo = "write" /\ retried))]_vars
    /\ [][Unsent =>
            (entry' = entry /\ Len(fireChannel') >= Len(fireChannel))]_vars
    /\ [](retried => (Unsent \/ pcS \in {"unlock", "filter"}))

\* An entry has been written at a retry, on the connection dialed after its
\* Write failed, while another entry waits in the channel.
C16_Witness ==
    /\ retried
    /\ pcS = "unlock"
    /\ Len(fireChannel) >= 1
    /\ Len(wire) >= 1
    /\ wire[Len(wire)].data.rec = entry
    /\ wire[Len(wire)].conn = conn

----------------------------------------------------------------------------
(* C18 *)

\* C18: when h.Timeout > 0, at every Write attempt of performSend the write
\* deadline has been set on the connection h.conn holds.
C18_DeadlineBeforeEveryWrite ==
    (Timeout > 0 /\ pcS = "write") => writeDeadline

----------------------------------------------------------------------------
(* C19 *)

----------------------------------------------------------------------------
(* C11 *)

\* C11: in no state is a SetField or SetFields call writing h.alwaysSentFields
\* while sendMessage is in its loop over the same map (neither of them holds a
\* lock at that point).
C11_NoWriteDuringMerge ==
    ~(pcW = "writing" /\ pcS = "merge")

----------------------------------------------------------------------------
(* C13 *)

\* C13: whatever the state and the configuration of the hook, a Levels call
\* returns panic, fatal, error, warn, info, debug, trace in this order, and
\* changes nothing in the hook.
C13_LevelsFixed ==
    /\ [](levelsRet \in {<<>>, <<"panic", "fatal", "error", "warn", "info", "debug", "trace">>})
    /\ [][(levelsRet = <<>> /\ levelsRet' # <<>>) =>
            /\ levelsRet' = <<"panic", "fatal", "error", "warn", "info", "debug", "trace">>
            /\ UNCHANGED <<fireChannel, conn, sendingLocker, alwaysSentFields,
                           hookOnlyPrefix, WaitUntilBufferFrees, Timeout, entryData,
                           pcS, entry, wire>>]_vars

\* Levels has returned while the sender is retrying a Write, a SetFields call is
\* half way through its writes and the prefix has been changed.
C13_Witness ==
    /\ levelsRet # <<>>
    /\ retried
    /\ pcS = "dialSleep"
    /\ pcW = "writing"
    /\ alwaysSentFields # TestFields
    /\ hookOnlyPrefix = KeyDash

----------------------------------------------------------------------------
(* C20 *)

\* C20: when filterHookOnly runs for an entry, h.hookOnlyPrefix is the prefix
\* sendMessage gave to the formatter for that entry.
C20_SamePrefixFormatAndFilter ==
    [][(pcS = "filter" /\ pcS' = "recv") => hookOnlyPrefix = fmtPrefix]_vars

====
